---- MODULE Spec2Model ----
(***************************************************************************)
(* Model of scripts/update-projects.js: the daily snapshot pipeline that   *)
(* lists an account's repositories, filters them, detects GitHub Pages in  *)
(* three tiers (Pages-config API, direct probe, name pattern), formats the  *)
(* detected ones, sorts them and writes them to the output file.           *)
(*                                                                         *)
(* Strings the code inspects (repository names, URLs) are sequences of     *)
(* one-character strings, so suffix and substring tests are computed.      *)
(* A timestamp is a local clock reading with a zone offset, the shape of   *)
(* an ISO-8601 string; new Date(...) maps it to an instant.                *)
(***************************************************************************)
EXTENDS Integers, Sequences, FiniteSets, TLC

VARIABLES
    config,           \* the config object, read once from the environment
    pc,               \* position of main()
    run,              \* number of the current run of the script
    remote,           \* the repository list the account holds
    listResult,       \* whether the list fetch resolved: "none", "yes", "no"
    answer,           \* what the endpoints answered in the current iteration
    tierResult,       \* per repository name: what each network tier returned
    repos,            \* main's `repos`
    idx,              \* position of the for-of loop in repos
    projects,         \* main's `projects`
    hasPages,         \* main's `hasPages` of the current iteration
    detectionMethod,  \* main's `detectionMethod` of the current iteration
    calls,            \* the network calls issued in this run, in order
    inflight,         \* number of network calls issued and not yet completed
    file,             \* the content of the output file
    fileAtStart,      \* the content of the output file when this run started
    exitCode,         \* the status the process ended with, -1 while running
    req               \* one request of httpsGet or testPagesURL, event by event

vars == << config, pc, run, remote, listResult, answer, tierResult, repos, idx,
           projects, hasPages, detectionMethod, calls, inflight, file,
           fileAtStart, exitCode, req >>

----------------------------------------------------------------------------
(* Bounds of the model *)

MaxRepos == 2

MaxStars == 1

MaxRuns == 2

\* The 'data' events of one response
MaxChunks == 2

----------------------------------------------------------------------------
(* Character strings *)

HTTPS == << "h", "t", "t", "p", "s", ":", "/", "/" >>

DotGithubIo == << ".", "g", "i", "t", "h", "u", "b", ".", "i", "o" >>

GithubCom == << "g", "i", "t", "h", "u", "b", ".", "c", "o", "m", "/" >>

Slash == << "/" >>

\* String.prototype.endsWith / a regular expression anchored with $
EndsWith(s, suffix) ==
    /\ Len(suffix) <= Len(s)
    /\ SubSeq(s, Len(s) - Len(suffix) + 1, Len(s)) = suffix

\* String.prototype.includes
Includes(s, sub) ==
    \E k \in 1..(Len(s) + 1) :
        /\ k + Len(sub) - 1 <= Len(s)
        /\ SubSeq(s, k, k + Len(sub) - 1) = sub

----------------------------------------------------------------------------
(* Configuration *)

Username == << "c", "z" >>

Configs ==
    [ username : {Username},
      token : {"", "ghp_token"},
      filterForks : BOOLEAN,
      filterArchived : BOOLEAN,
      minStars : 0..MaxStars ]

----------------------------------------------------------------------------
(* The remote data set *)

RootRepoName == Username \o DotGithubIo

DocsRepoName == << "x", "-", "d", "o", "c", "s" >>

PlainRepoName == << "b", "a", "r" >>

RepoNames == { RootRepoName, DocsRepoName, PlainRepoName }

\* updated_at: local clock reading t in a zone tz hours ahead of UTC
Timestamps == { [t |-> 1, tz |-> 0], [t |-> 2, tz |-> 2] }

Null == "null"

Description(name) == IF name = PlainRepoName THEN Null ELSE "text"

Language(name) == IF name = DocsRepoName THEN Null ELSE "JavaScript"

RepoRecord(name, fork, archived, stars, updated) ==
    [ name |-> name,
      description |-> Description(name),
      html_url |-> HTTPS \o GithubCom \o Username \o Slash \o name,
      homepage |-> Null,
      language |-> Language(name),
      stargazers_count |-> stars,
      forks_count |-> 0,
      updated_at |-> updated,
      created_at |-> [t |-> 0, tz |-> 0],
      topics |-> << >>,
      fork |-> fork,
      archived |-> archived ]

RepositoryRecords ==
    { RepoRecord(n, f, a, s, u) :
        n \in RepoNames, f \in BOOLEAN, a \in BOOLEAN,
        s \in 0..MaxStars, u \in Timestamps }

\* Repository names are unique per account
RepoLists ==
    { l \in UNION { [1..n -> RepositoryRecords] : n \in 0..MaxRepos } :
        \A j, k \in DOMAIN l : j # k => l[j].name # l[k].name }

NoAnswer == [kind |-> "none", status |-> 0, json |-> FALSE]

\* What a JSON endpoint can answer: a response with a status and a body that
\* is or is not well-formed JSON, or a transport error
JsonAnswers ==
    { [kind |-> "response", status |-> 200, json |-> TRUE],
      [kind |-> "response", status |-> 200, json |-> FALSE],
      [kind |-> "response", status |-> 404, json |-> TRUE],
      [kind |-> "error", status |-> 0, json |-> FALSE] }

\* What the probe can meet: a response with a status, an error, a timeout
ProbeAnswers ==
    { [kind |-> "response", status |-> 200, json |-> FALSE],
      [kind |-> "response", status |-> 404, json |-> FALSE],
      [kind |-> "error", status |-> 0, json |-> FALSE],
      [kind |-> "timeout", status |-> 0, json |-> FALSE] }

----------------------------------------------------------------------------
(* The functions of the script *)

\* httpsGet: resolves with the parsed body exactly on a 2xx response whose
\* body parses, rejects otherwise
httpsGetResolves(ans) ==
    /\ ans.kind = "response"
    /\ ans.status >= 200 /\ ans.status < 300
    /\ ans.json

\* hasGitHubPagesAPI: false without a token, true when httpsGet resolves,
\* false when it rejects (the catch block)
hasGitHubPagesAPI(ans) ==
    IF config.token = "" THEN FALSE ELSE httpsGetResolves(ans)

\* testPagesURL: resolves true on a status in [200,400), false on any other
\* status, on error and on timeout
testPagesURL(ans) ==
    /\ ans.kind = "response"
    /\ ans.status >= 200 /\ ans.status < 400

PagesPatterns ==
    << DotGithubIo,
       << "-", "h", "o", "m", "e", "p", "a", "g", "e" >>,
       << "-", "p", "o", "r", "t", "f", "o", "l", "i", "o" >>,
       << "-", "w", "e", "b", "s", "i", "t", "e" >>,
       << "-", "s", "i", "t", "e" >>,
       << "-", "d", "e", "m", "o" >>,
       << "-", "d", "o", "c", "s" >> >>

\* Variant: the pattern tier consulted only after the API tier has run
likelyHasPagesNeedsToken(repo) ==
    /\ config.token # ""
    /\ \E p \in DOMAIN PagesPatterns : EndsWith(repo.name, PagesPatterns[p])

\* Variant: the patterns not anchored at the end of the name
likelyHasPagesUnanchored(repo) ==
    \E p \in DOMAIN PagesPatterns : Includes(repo.name, PagesPatterns[p])

likelyHasPages(repo) ==
    \E p \in DOMAIN PagesPatterns : EndsWith(repo.name, PagesPatterns[p])

\* A string property that `||` replaces: absent, null or empty
Falsy(repo, field) ==
    \/ field \notin DOMAIN repo
    \/ repo[field] \in {Null, ""}

\* A property that `??` would replace: absent or null
Nullish(repo, field) ==
    \/ field \notin DOMAIN repo
    \/ repo[field] = Null

\* Variant: the placeholders substituted with `??` in place of `||`
formatProjectDataNullish(repo) ==
    [ name |-> repo.name,
      description |-> IF Nullish(repo, "description")
                      THEN "A GitHub project" ELSE repo.description,
      url |-> IF Includes(repo.name, config.username \o DotGithubIo)
              THEN HTTPS \o config.username \o DotGithubIo \o Slash
              ELSE HTTPS \o config.username \o DotGithubIo \o Slash
                         \o repo.name \o Slash,
      github |-> repo.html_url,
      language |-> IF Nullish(repo, "language")
                   THEN "Various" ELSE repo.language,
      stars |-> repo.stargazers_count,
      forks |-> repo.forks_count,
      updatedAt |-> repo.updated_at,
      createdAt |-> repo.created_at,
      topics |-> IF "topics" \in DOMAIN repo THEN repo.topics ELSE << >>,
      homepage |-> IF Falsy(repo, "homepage") THEN Null ELSE repo.homepage ]

\* Variant: the root URL given to the repository named as the account's
\* domain only
formatProjectDataExactRoot(repo) ==
    [ name |-> repo.name,
      description |-> IF Falsy(repo, "description")
                      THEN "A GitHub project" ELSE repo.description,
      url |-> IF repo.name = config.username \o DotGithubIo
              THEN HTTPS \o config.username \o DotGithubIo \o Slash
              ELSE HTTPS \o config.username \o DotGithubIo \o Slash
                         \o repo.name \o Slash,
      github |-> repo.html_url,
      language |-> IF Falsy(repo, "language")
                   THEN "Various" ELSE repo.language,
      stars |-> repo.stargazers_count,
      forks |-> repo.forks_count,
      updatedAt |-> repo.updated_at,
      createdAt |-> repo.created_at,
      topics |-> IF "topics" \in DOMAIN repo THEN repo.topics ELSE << >>,
      homepage |-> IF Falsy(repo, "homepage") THEN Null ELSE repo.homepage ]

formatProjectData(repo) ==
    [ name |-> repo.name,
      description |-> IF Falsy(repo, "description")
                      THEN "A GitHub project" ELSE repo.description,
      url |-> IF Includes(repo.name, config.username \o DotGithubIo)
              THEN HTTPS \o config.username \o DotGithubIo \o Slash
              ELSE HTTPS \o config.username \o DotGithubIo \o Slash
                         \o repo.name \o Slash,
      github |-> repo.html_url,
      language |-> IF Falsy(repo, "language")
                   THEN "Various" ELSE repo.language,
      stars |-> repo.stargazers_count,
      forks |-> repo.forks_count,
      updatedAt |-> repo.updated_at,
      createdAt |-> repo.created_at,
      topics |-> IF "topics" \in DOMAIN repo THEN repo.topics ELSE << >>,
      homepage |-> IF Falsy(repo, "homepage") THEN Null ELSE repo.homepage ]

\* Variant: the fork test left out
RejectedKeepsForks(repo) ==
    \/ config.filterArchived /\ repo.archived
    \/ repo.stargazers_count < config.minStars

\* Variant: the star threshold off by one
RejectedStarsOffByOne(repo) ==
    \/ config.filterForks /\ repo.fork
    \/ config.filterArchived /\ repo.archived
    \/ repo.stargazers_count + 1 < config.minStars

\* Variant: the archived test left out
RejectedKeepsArchived(repo) ==
    \/ config.filterForks /\ repo.fork
    \/ repo.stargazers_count < config.minStars

\* The three filter tests at the head of the loop body
Rejected(repo) ==
    \/ config.filterForks /\ repo.fork
    \/ config.filterArchived /\ repo.archived
    \/ repo.stargazers_count < config.minStars

\* new Date(ts): the instant a timestamp denotes
DateOf(ts) == ts.t - ts.tz

\* Variant: the timestamps compared as strings, character by character
compareAsStrings(a, b) ==
    IF b.stars # a.stars
    THEN b.stars - a.stars
    ELSE IF b.updatedAt.t # a.updatedAt.t
         THEN b.updatedAt.t - a.updatedAt.t
         ELSE b.updatedAt.tz - a.updatedAt.tz

\* The comparator handed to projects.sort
compare(a, b) ==
    IF b.stars # a.stars
    THEN b.stars - a.stars
    ELSE DateOf(b.updatedAt) - DateOf(a.updatedAt)

\* Array.prototype.sort: a stable sort by the comparator
RECURSIVE InsertSorted(_, _)
InsertSorted(sorted, x) ==
    IF sorted = << >> THEN << x >>
    ELSE IF compare(sorted[Len(sorted)], x) <= 0
         THEN Append(sorted, x)
         ELSE Append(InsertSorted(SubSeq(sorted, 1, Len(sorted) - 1), x),
                     sorted[Len(sorted)])

RECURSIVE SortProjects(_)
SortProjects(ps) ==
    IF ps = << >> THEN << >>
    ELSE InsertSorted(SortProjects(SubSeq(ps, 1, Len(ps) - 1)), ps[Len(ps)])

\* Variant: the push not guarded by hasPages
CollectAlways(ps, repo, found) ==
    Append(ps, formatProjectData(repo))

\* Variant: a push by the detecting tier and another by the pattern tier
CollectPerTier(ps, repo, found) ==
    IF ~found THEN ps
    ELSE IF likelyHasPages(repo)
         THEN Append(Append(ps, formatProjectData(repo)), formatProjectData(repo))
         ELSE Append(ps, formatProjectData(repo))

\* if (hasPages) projects.push(formatProjectData(repo))
Collect(ps, repo, found) ==
    IF found THEN Append(ps, formatProjectData(repo)) ELSE ps

Call(kind, name, auth) == [kind |-> kind, repo |-> name, auth |-> auth]

NoRepo == << >>

----------------------------------------------------------------------------
(* The list endpoint answers with the account's list, or fails *)

ListAnswers ==
    { [kind |-> "response", status |-> 200, json |-> TRUE],
      [kind |-> "response", status |-> 200, json |-> FALSE],
      [kind |-> "response", status |-> 403, json |-> TRUE],
      [kind |-> "error", status |-> 0, json |-> FALSE] }

NoAnswers == [list |-> NoAnswer, pages |-> NoAnswer, probe |-> NoAnswer]

\* The answers known at the head of a loop iteration: the list fetch's only
AtIterationStart(a) == [a EXCEPT !.pages = NoAnswer, !.probe = NoAnswer]

NoResults == [n \in RepoNames |-> [pages |-> "none", probe |-> "none"]]

YesNo(b) == IF b THEN "yes" ELSE "no"

\* What an earlier run left in the output file: a project that is no longer
\* in the account
StaleFile ==
    << [ name |-> << "o", "l", "d" >>,
         description |-> "A GitHub project",
         url |-> HTTPS \o Username \o DotGithubIo \o Slash
                       \o << "o", "l", "d" >> \o Slash,
         github |-> HTTPS \o GithubCom \o Username \o Slash \o << "o", "l", "d" >>,
         language |-> "Various",
         stars |-> 0,
         forks |-> 0,
         updatedAt |-> [t |-> 0, tz |-> 0],
         createdAt |-> [t |-> 0, tz |-> 0],
         topics |-> << >>,
         homepage |-> Null ] >>

----------------------------------------------------------------------------
(* The state machine *)

\* No request is being followed event by event
IdleReq ==
    [ call |-> "none", events |-> << >>, status |-> 0, data |-> << >>,
      destroyed |-> FALSE, settled |-> [kind |-> "pending"] ]

\* The state of a process that has just started, by an output file that
\* holds f, for an account that holds the list l
Started(l, f) ==
    /\ pc = "start"
    /\ run = 1
    /\ remote = l
    /\ listResult = "none"
    /\ answer = NoAnswers
    /\ tierResult = NoResults
    /\ repos = << >>
    /\ idx = 0
    /\ projects = << >>
    /\ hasPages = FALSE
    /\ detectionMethod = ""
    /\ calls = << >>
    /\ inflight = 0
    /\ file = f
    /\ fileAtStart = f
    /\ exitCode = -1
    /\ req = IdleReq

Init ==
    /\ config \in Configs
    /\ \E l \in RepoLists : Started(l, StaleFile)

\* main, up to `await httpsGet(REPOS_API, headers)`
StartMain ==
    /\ pc = "start"
    /\ calls' = Append(calls, Call("list", NoRepo, config.token # ""))
    /\ inflight' = inflight + 1
    /\ pc' = "awaitList"
    /\ UNCHANGED << config, req, run, remote, listResult, answer, tierResult, repos,
                    idx, projects, hasPages, detectionMethod, file,
                    fileAtStart, exitCode >>

\* Variant: a failed list fetch taken for an empty list
ListResponseSwallows ==
    /\ pc = "awaitList"
    /\ \E ans \in ListAnswers :
        /\ listResult \in {"none", YesNo(httpsGetResolves(ans))}
        /\ listResult' = YesNo(httpsGetResolves(ans))
        /\ answer' = [answer EXCEPT !.list = ans]
        /\ inflight' = inflight - 1
        /\ repos' = IF httpsGetResolves(ans) THEN remote ELSE << >>
        /\ projects' = << >>
        /\ idx' = 1
        /\ pc' = "loop"
        /\ exitCode' = exitCode
    /\ UNCHANGED << config, req, run, remote, tierResult, hasPages,
                    detectionMethod, calls, file, fileAtStart >>

\* The list fetch settles: main goes on into the loop, or into the catch
\* block and process.exit(1)
ListResponse ==
    /\ pc = "awaitList"
    /\ \E ans \in ListAnswers :
        /\ listResult \in {"none", YesNo(httpsGetResolves(ans))}
        /\ listResult' = YesNo(httpsGetResolves(ans))
        /\ answer' = [answer EXCEPT !.list = ans]
        /\ inflight' = inflight - 1
        /\ IF httpsGetResolves(ans)
           THEN /\ repos' = remote
                /\ projects' = << >>
                /\ idx' = 1
                /\ pc' = "loop"
                /\ exitCode' = exitCode
           ELSE /\ pc' = "failed"
                /\ exitCode' = 1
                /\ UNCHANGED << repos, projects, idx >>
    /\ UNCHANGED << config, req, run, remote, tierResult, hasPages,
                    detectionMethod, calls, file, fileAtStart >>

\* One loop iteration that ends at a `continue` of the filter
SkipRepo ==
    /\ pc = "loop"
    /\ idx <= Len(repos)
    /\ Rejected(repos[idx])
    /\ idx' = idx + 1
    /\ answer' = AtIterationStart(answer)
    /\ UNCHANGED << config, req, pc, run, remote, listResult, tierResult, repos,
                    projects, hasPages, detectionMethod, calls, inflight,
                    file, fileAtStart, exitCode >>

\* Variant: the check started and not awaited, as under Promise.all
BeginCheckNoAwait ==
    /\ pc = "loop"
    /\ idx <= Len(repos)
    /\ ~Rejected(repos[idx])
    /\ hasPages' = FALSE
    /\ detectionMethod' = ""
    /\ answer' = AtIterationStart(answer)
    /\ inflight' = inflight + 1
    /\ calls' = Append(calls, Call(IF config.token # "" THEN "pages" ELSE "probe",
                                   repos[idx].name, config.token # ""))
    /\ idx' = idx + 1
    /\ UNCHANGED << config, req, pc, run, remote, listResult, tierResult, repos,
                    projects, file, fileAtStart, exitCode >>

\* Variant: the Pages-config call issued with or without a token
BeginCheckAlwaysApi ==
    /\ pc = "loop"
    /\ idx <= Len(repos)
    /\ ~Rejected(repos[idx])
    /\ hasPages' = FALSE
    /\ detectionMethod' = ""
    /\ answer' = AtIterationStart(answer)
    /\ inflight' = inflight + 1
    /\ calls' = Append(calls, Call("pages", repos[idx].name, config.token # ""))
    /\ pc' = "awaitPages"
    /\ UNCHANGED << config, req, run, remote, listResult, tierResult, repos, idx,
                    projects, file, fileAtStart, exitCode >>

\* One loop iteration that passes the filter, up to its first await:
\* the Pages-config call with a token, the probe without
BeginCheck ==
    /\ pc = "loop"
    /\ idx <= Len(repos)
    /\ ~Rejected(repos[idx])
    /\ hasPages' = FALSE
    /\ detectionMethod' = ""
    /\ answer' = AtIterationStart(answer)
    /\ inflight' = inflight + 1
    /\ IF config.token # ""
       THEN /\ calls' = Append(calls, Call("pages", repos[idx].name, TRUE))
            /\ pc' = "awaitPages"
       ELSE /\ calls' = Append(calls, Call("probe", repos[idx].name, FALSE))
            /\ pc' = "awaitProbe"
    /\ UNCHANGED << config, req, run, remote, listResult, tierResult, repos, idx,
                    projects, file, fileAtStart, exitCode >>

\* Variant: the probe issued whatever the Pages-config call answered
PagesResponseAlwaysProbes ==
    /\ pc = "awaitPages"
    /\ \E ans \in JsonAnswers :
        LET repo == repos[idx]
            found == hasGitHubPagesAPI(ans)
        IN  /\ tierResult[repo.name].pages \in {"none", YesNo(found)}
            /\ tierResult' = [tierResult EXCEPT ![repo.name].pages = YesNo(found)]
            /\ answer' = [answer EXCEPT !.pages = ans]
            /\ hasPages' = found
            /\ detectionMethod' = IF found THEN "API" ELSE "API (not found)"
            /\ calls' = Append(calls, Call("probe", repo.name, FALSE))
            /\ inflight' = inflight
            /\ pc' = "awaitProbe"
            /\ UNCHANGED << projects, idx >>
    /\ UNCHANGED << config, req, run, remote, listResult, repos, file,
                    fileAtStart, exitCode >>

\* Variant: the probe sent with the headers of the API calls
PagesResponseProbeWithToken ==
    /\ pc = "awaitPages"
    /\ \E ans \in JsonAnswers :
        LET repo == repos[idx]
            found == hasGitHubPagesAPI(ans)
        IN  /\ tierResult[repo.name].pages \in {"none", YesNo(found)}
            /\ tierResult' = [tierResult EXCEPT ![repo.name].pages = YesNo(found)]
            /\ answer' = [answer EXCEPT !.pages = ans]
            /\ hasPages' = found
            /\ detectionMethod' = IF found THEN "API" ELSE "API (not found)"
            /\ IF found
               THEN /\ projects' = Collect(projects, repo, found)
                    /\ idx' = idx + 1
                    /\ pc' = "loop"
                    /\ inflight' = inflight - 1
                    /\ calls' = calls
               ELSE /\ calls' = Append(calls, Call("probe", repo.name, config.token # ""))
                    /\ inflight' = inflight
                    /\ pc' = "awaitProbe"
                    /\ UNCHANGED << projects, idx >>
    /\ UNCHANGED << config, req, run, remote, listResult, repos, file,
                    fileAtStart, exitCode >>

\* Variant: a rejected Pages-config call reaches main's outer catch block
PagesResponsePropagates ==
    /\ pc = "awaitPages"
    /\ \E ans \in JsonAnswers :
        LET repo == repos[idx]
            found == hasGitHubPagesAPI(ans)
        IN  /\ tierResult[repo.name].pages \in {"none", YesNo(found)}
            /\ tierResult' = [tierResult EXCEPT ![repo.name].pages = YesNo(found)]
            /\ answer' = [answer EXCEPT !.pages = ans]
            /\ hasPages' = found
            /\ detectionMethod' = IF found THEN "API" ELSE "API (not found)"
            /\ inflight' = inflight - 1
            /\ calls' = calls
            /\ IF found
               THEN /\ projects' = Collect(projects, repo, found)
                    /\ idx' = idx + 1
                    /\ pc' = "loop"
                    /\ exitCode' = exitCode
               ELSE /\ pc' = "failed"
                    /\ exitCode' = 1
                    /\ UNCHANGED << projects, idx >>
    /\ UNCHANGED << config, req, run, remote, listResult, repos, file, fileAtStart >>

\* hasGitHubPagesAPI settles: on a positive the iteration ends with the
\* push, otherwise it goes on to the probe
PagesResponse ==
    /\ pc = "awaitPages"
    /\ \E ans \in JsonAnswers :
        LET repo == repos[idx]
            found == hasGitHubPagesAPI(ans)
        IN  /\ tierResult[repo.name].pages \in {"none", YesNo(found)}
            /\ tierResult' = [tierResult EXCEPT ![repo.name].pages = YesNo(found)]
            /\ answer' = [answer EXCEPT !.pages = ans]
            /\ hasPages' = found
            /\ detectionMethod' = IF found THEN "API" ELSE "API (not found)"
            /\ IF found
               THEN /\ projects' = Collect(projects, repo, found)
                    /\ idx' = idx + 1
                    /\ pc' = "loop"
                    /\ inflight' = inflight - 1
                    /\ calls' = calls
               ELSE /\ calls' = Append(calls, Call("probe", repo.name, FALSE))
                    /\ inflight' = inflight
                    /\ pc' = "awaitProbe"
                    /\ UNCHANGED << projects, idx >>
    /\ UNCHANGED << config, req, run, remote, listResult, repos, file,
                    fileAtStart, exitCode >>

\* Variant: the pattern tier left out after a negative probe
ProbeResponseSkipsPattern ==
    /\ pc = "awaitProbe"
    /\ \E ans \in ProbeAnswers :
        LET repo == repos[idx]
            probed == testPagesURL(ans)
        IN  /\ tierResult[repo.name].probe \in {"none", YesNo(probed)}
            /\ tierResult' = [tierResult EXCEPT ![repo.name].probe = YesNo(probed)]
            /\ answer' = [answer EXCEPT !.probe = ans]
            /\ hasPages' = probed
            /\ detectionMethod' =
                   IF probed THEN "URL test" ELSE "URL test (not found)"
            /\ projects' = Collect(projects, repo, probed)
    /\ idx' = idx + 1
    /\ pc' = "loop"
    /\ inflight' = inflight - 1
    /\ UNCHANGED << config, req, run, remote, listResult, repos, calls, file,
                    fileAtStart, exitCode >>

\* testPagesURL settles: then the pattern tier, the push, the next iteration
ProbeResponse ==
    /\ pc = "awaitProbe"
    /\ \E ans \in ProbeAnswers :
        LET repo == repos[idx]
            probed == testPagesURL(ans)
            found == probed \/ likelyHasPages(repo)
        IN  /\ tierResult[repo.name].probe \in {"none", YesNo(probed)}
            /\ tierResult' = [tierResult EXCEPT ![repo.name].probe = YesNo(probed)]
            /\ answer' = [answer EXCEPT !.probe = ans]
            /\ hasPages' = found
            /\ detectionMethod' =
                   IF probed THEN "URL test"
                   ELSE IF found THEN "Pattern match"
                   ELSE "URL test (not found)"
            /\ projects' = Collect(projects, repo, found)
    /\ idx' = idx + 1
    /\ pc' = "loop"
    /\ inflight' = inflight - 1
    /\ UNCHANGED << config, req, run, remote, listResult, repos, calls, file,
                    fileAtStart, exitCode >>

\* The arrangements of ps that the comparator accepts as sorted
SortedArrangements(ps) ==
    { q \in { [k \in DOMAIN ps |-> ps[f[k]]] : f \in Permutations(DOMAIN ps) } :
        \A k \in 1..(Len(q) - 1) : compare(q[k], q[k + 1]) <= 0 }

\* Variant: a sort that leaves the order of ties to chance
SortAndWriteAnyTieOrder ==
    /\ pc = "loop"
    /\ idx > Len(repos)
    /\ \E q \in SortedArrangements(projects) :
        /\ projects' = q
        /\ file' = q
    /\ exitCode' = 0
    /\ pc' = "done"
    /\ answer' = AtIterationStart(answer)
    /\ UNCHANGED << config, req, run, remote, listResult, tierResult, repos, idx,
                    hasPages, detectionMethod, calls, inflight, fileAtStart >>

\* Variant: the new records written in front of what the file held
SortAndWriteMerges ==
    /\ pc = "loop"
    /\ idx > Len(repos)
    /\ projects' = SortProjects(projects)
    /\ file' = SortProjects(projects) \o file
    /\ exitCode' = 0
    /\ pc' = "done"
    /\ answer' = AtIterationStart(answer)
    /\ UNCHANGED << config, req, run, remote, listResult, tierResult, repos,
                    idx, hasPages, detectionMethod, calls, inflight,
                    fileAtStart >>

\* Variant: nothing written when no project was found
SortAndWriteSkipsEmpty ==
    /\ pc = "loop"
    /\ idx > Len(repos)
    /\ projects' = SortProjects(projects)
    /\ file' = IF projects = << >> THEN file ELSE SortProjects(projects)
    /\ exitCode' = 0
    /\ pc' = "done"
    /\ answer' = AtIterationStart(answer)
    /\ UNCHANGED << config, req, run, remote, listResult, tierResult, repos,
                    idx, hasPages, detectionMethod, calls, inflight,
                    fileAtStart >>

\* After the loop: sort, write the file, end.  The file holds
\* JSON.stringify(projects, null, 2), a one-to-one rendering of the array,
\* represented by the array itself.
SortAndWrite ==
    /\ pc = "loop"
    /\ idx > Len(repos)
    /\ projects' = SortProjects(projects)
    /\ file' = SortProjects(projects)
    /\ exitCode' = 0
    /\ pc' = "done"
    /\ answer' = AtIterationStart(answer)
    /\ UNCHANGED << config, req, run, remote, listResult, tierResult, repos, idx,
                    hasPages, detectionMethod, calls, inflight, fileAtStart >>

Next ==
    \/ StartMain
    \/ ListResponse
    \/ SkipRepo
    \/ BeginCheck
    \/ PagesResponse
    \/ ProbeResponse
    \/ SortAndWrite

Spec == Init /\ [][Next]_vars

----------------------------------------------------------------------------
(* Runs repeated on schedule *)

\* The next scheduled run: a fresh process with the same configuration,
\* finding the file the last run left, against a remote data set that has
\* not changed: the same list, and endpoints that answer each repository
\* as they did (tierResult and listResult are kept)
NextRun ==
    /\ pc \in {"done", "failed"}
    /\ run < MaxRuns
    /\ run' = run + 1
    /\ pc' = "start"
    /\ answer' = NoAnswers
    /\ repos' = << >>
    /\ idx' = 0
    /\ projects' = << >>
    /\ hasPages' = FALSE
    /\ detectionMethod' = ""
    /\ calls' = << >>
    /\ inflight' = 0
    /\ fileAtStart' = file
    /\ exitCode' = -1
    /\ UNCHANGED << config, req, remote, listResult, tierResult, file >>

NextScheduled == Next \/ NextRun

SpecScheduled == Init /\ [][NextScheduled]_vars

----------------------------------------------------------------------------
(* Vocabulary of the properties *)

\* The filter as the specification words it
Eligible(repo) ==
    /\ ~(config.filterForks /\ repo.fork)
    /\ ~(config.filterArchived /\ repo.archived)
    /\ repo.stargazers_count >= config.minStars

\* The names the pattern tier is specified to accept, among RepoNames
PatternNames == { RootRepoName, DocsRepoName }

NameIn(records, name) == \E k \in DOMAIN records : records[k].name = name

NetworkCallFor(name) ==
    \E c \in DOMAIN calls :
        calls[c].kind \in {"pages", "probe"} /\ calls[c].repo = name

\* The order the specification demands of the output
InOrder(a, b) ==
    \/ a.stars > b.stars
    \/ a.stars = b.stars /\ DateOf(a.updatedAt) >= DateOf(b.updatedAt)

IsSorted(records) ==
    \A k \in 1..(Len(records) - 1) : InOrder(records[k], records[k + 1])

----------------------------------------------------------------------------
(* Properties *)

\* C1: with exclude-forks enabled, a fetched repository whose fork flag is
\* true is never among the collected projects nor in the output file,
\* whatever any detection tier would answer for it.
C1_ForksNeverInOutput ==
    \A k \in DOMAIN repos :
        (config.filterForks /\ repos[k].fork)
            => /\ ~NameIn(projects, repos[k].name)
               /\ ~NameIn(file, repos[k].name)

\* C1 witness: a run has written its output, and the list held a fork that
\* only the fork test rejects and that the pattern tier would accept.
C1_Witness ==
    /\ pc = "done"
    /\ config.filterForks
    /\ \E k \in DOMAIN repos :
        /\ repos[k].fork
        /\ ~repos[k].archived
        /\ repos[k].stargazers_count >= config.minStars
        /\ repos[k].name \in PatternNames

\* C2: a fetched repository with fewer stars than the configured minimum is
\* never among the collected projects nor in the output file.
C2_LowStarsNeverInOutput ==
    \A k \in DOMAIN repos :
        (repos[k].stargazers_count < config.minStars)
            => /\ ~NameIn(projects, repos[k].name)
               /\ ~NameIn(file, repos[k].name)

\* C2 witness: a run has written its output, and the list held a repository
\* that only the star test rejects and that the pattern tier would accept.
C2_Witness ==
    /\ pc = "done"
    /\ \E k \in DOMAIN repos :
        /\ repos[k].stargazers_count < config.minStars
        /\ ~repos[k].fork
        /\ ~repos[k].archived
        /\ repos[k].name \in PatternNames

\* C3: no Pages-config call and no probe is ever issued for a repository the
\* filter rejects (fork, archived, or too few stars).
C3_NoCallForRejected ==
    \A k \in DOMAIN repos :
        ~Eligible(repos[k]) => ~NetworkCallFor(repos[k].name)

\* C3 witness: a run has ended in which an archived repository was rejected
\* and a detection call was issued for another repository.
C3_Witness ==
    /\ pc = "done"
    /\ \E j, k \in DOMAIN repos :
        /\ config.filterArchived /\ repos[j].archived
        /\ ~repos[j].fork
        /\ repos[j].stargazers_count >= config.minStars
        /\ NetworkCallFor(repos[k].name)

\* C4: without a credential, a repository that passes the filter and whose
\* name the pattern tier accepts is collected although the probe answered
\* negative (bad status, error or timeout), with "Pattern match" as the
\* method, and it is in the written output.
C4_PatternTierIsFallback ==
    /\ (pc = "loop" /\ config.token = "" /\ answer.probe # NoAnswer
          /\ ~(answer.probe.kind = "response" /\ answer.probe.status = 200)
          /\ repos[idx - 1].name \in PatternNames)
        => /\ projects # << >>
           /\ projects[Len(projects)] = formatProjectData(repos[idx - 1])
           /\ detectionMethod = "Pattern match"
    /\ pc = "done" =>
        \A k \in DOMAIN repos :
            (/\ config.token = ""
             /\ Eligible(repos[k])
             /\ repos[k].name \in PatternNames
             /\ tierResult[repos[k].name].probe = "no")
                => \E m \in DOMAIN file : file[m] = formatProjectData(repos[k])

\* C4 witness: the output is written, no credential is configured, and a
\* repository named x-docs whose probe answered negative is in the file.
C4_Witness ==
    /\ pc = "done"
    /\ config.token = ""
    /\ \E k \in DOMAIN repos :
        /\ repos[k].name = DocsRepoName
        /\ tierResult[DocsRepoName].probe = "no"
        /\ NameIn(file, DocsRepoName)

\* C5: the written output is sorted: each record has more stars than the
\* next, or as many stars and an updatedAt instant that is not earlier.
C5_OutputSorted ==
    pc = "done" => IsSorted(file)

\* C5 witness: two records with equal stars were written, in the order of
\* their instants, which is the reverse of their order in the fetched list
\* and the reverse of the order of their timestamps read as strings.
C5_Witness ==
    /\ pc = "done"
    /\ Len(file) = 2
    /\ Len(repos) = 2
    /\ file[1].stars = file[2].stars
    /\ DateOf(file[1].updatedAt) > DateOf(file[2].updatedAt)
    /\ file[1].updatedAt.t < file[2].updatedAt.t
    /\ file[1].name = repos[2].name

\* Some tier answered positive for the repository
Detected(repo) ==
    \/ config.token # "" /\ tierResult[repo.name].pages = "yes"
    \/ tierResult[repo.name].probe = "yes"
    \/ repo.name \in PatternNames

\* The record is the formatted record of a fetched repository that passed
\* the filter and that some tier detected
Accounted(record) ==
    \E k \in DOMAIN repos :
        /\ k \in DOMAIN remote /\ repos[k] = remote[k]
        /\ record = formatProjectData(repos[k])
        /\ Eligible(repos[k])
        /\ Detected(repos[k])

\* C6: at every point of a run every collected project, and every record of
\* the written output, is the record of a fetched repository that passed
\* the filter and that at least one tier detected.
C6_OnlyFetchedEligibleDetected ==
    /\ \A m \in DOMAIN projects : Accounted(projects[m])
    /\ pc = "done" => \A m \in DOMAIN file : Accounted(file[m])

\* C6 witness: the output is written with a record in it, and the list held
\* an eligible repository that no tier detected and that is not in the file.
C6_Witness ==
    /\ pc = "done"
    /\ file # << >>
    /\ \E k \in DOMAIN repos :
        /\ Eligible(repos[k])
        /\ ~Detected(repos[k])
        /\ ~NameIn(file, repos[k].name)

NoNameTwice(records) ==
    \A j, k \in DOMAIN records : j # k => records[j].name # records[k].name

\* C7: the names of the fetched list being distinct, no name occurs twice
\* among the collected projects at any point, nor in the output file.
C7_NoNameTwice ==
    NoNameTwice(repos) => NoNameTwice(projects) /\ NoNameTwice(file)

\* C7 witness: two records are written, one of a repository that both the
\* probe and the pattern tier answer positive for.
C7_Witness ==
    /\ pc = "done"
    /\ Len(file) = 2
    /\ \E k \in DOMAIN repos :
        /\ repos[k].name \in PatternNames
        /\ tierResult[repos[k].name].probe = "yes"
        /\ NameIn(file, repos[k].name)

\* A list answer that makes the fetch fail: a transport error, a status
\* outside [200,300), or a body that is not JSON
ListFetchFailed(ans) ==
    \/ ans.kind = "error"
    \/ ans.kind = "response" /\ (ans.status < 200 \/ ans.status >= 300)
    \/ ans.kind = "response" /\ ~ans.json

\* C8: a failed list fetch aborts the run: exit status 1, no call but the
\* list fetch, the file untouched.  The file is touched only by the write
\* that follows the last loop iteration, and then holds the whole sorted
\* collection.
C8_AllOrNothing ==
    /\ (answer.list # NoAnswer /\ ListFetchFailed(answer.list)) => pc = "failed"
    /\ pc = "failed" =>
        /\ ListFetchFailed(answer.list)
        /\ exitCode = 1
        /\ calls = << Call("list", NoRepo, config.token # "") >>
        /\ file = fileAtStart
    /\ pc # "done" => file = fileAtStart
    /\ pc = "done" =>
        /\ ~ListFetchFailed(answer.list)
        /\ idx = Len(repos) + 1
        /\ repos = remote
        /\ file = projects
        /\ IsSorted(file)
        /\ exitCode = 0

\* C8 witness: the list endpoint answered 200 with a body that is not JSON
\* for an account that holds two repositories, and the run has ended in the
\* failure state.
C8_Witness ==
    /\ pc = "failed"
    /\ answer.list.kind = "response"
    /\ answer.list.status = 200
    /\ Len(remote) = 2
    /\ file = StaleFile

\* A Pages-config answer that makes the call fail: a transport error, a
\* status outside [200,300), or a body that is not JSON
PagesCallFailed(ans) ==
    \/ ans.kind = "error"
    \/ ans.kind = "response" /\ (ans.status < 200 \/ ans.status >= 300)
    \/ ans.kind = "response" /\ ~ans.json

ProbeFailed(ans) == ans.kind \in {"error", "timeout"}

\* The repository of the iteration the answers in `answer` belong to
CheckedRepo == IF pc = "loop" THEN repos[idx - 1] ELSE repos[idx]

\* C9: a failed per-repository check never ends the run in failure.  A
\* failed Pages-config call is followed by the probe of the same repository;
\* after a failed probe the pattern tier decides; and when the output is
\* written every eligible repository of the list has been checked.  Short of
\* its end the run can always take a step.
C9_CheckFailuresStayLocal ==
    /\ (pc = "failed" \/ exitCode = 1) =>
        /\ ListFetchFailed(answer.list)
        /\ \A c \in DOMAIN calls : calls[c].kind = "list"
    /\ (answer.pages # NoAnswer /\ PagesCallFailed(answer.pages)) =>
        /\ pc \in {"awaitProbe", "loop"}
        /\ Len(calls) >= 2
        /\ calls[Len(calls)] = Call("probe", CheckedRepo.name, FALSE)
        /\ calls[Len(calls) - 1] = Call("pages", CheckedRepo.name, TRUE)
    /\ (answer.probe # NoAnswer /\ ProbeFailed(answer.probe)) =>
        /\ pc = "loop"
        /\ NameIn(projects, CheckedRepo.name) <=> CheckedRepo.name \in PatternNames
    /\ pc = "done" =>
        /\ file = projects
        /\ \A k \in DOMAIN repos : Eligible(repos[k]) => NetworkCallFor(repos[k].name)
        /\ \A k \in DOMAIN repos :
            (Eligible(repos[k]) /\ Detected(repos[k])) => NameIn(file, repos[k].name)
    /\ pc \notin {"done", "failed"} => ENABLED Next

\* C9 witness: both checks of the first repository answered negative, and
\* the run is at the probe of the second one, whose Pages-config call came
\* back with a body that is not JSON.
C9_Witness ==
    /\ pc = "awaitProbe"
    /\ idx = 2
    /\ tierResult[repos[1].name] = [pages |-> "no", probe |-> "no"]
    /\ answer.pages.kind = "response"
    /\ answer.pages.status = 200
    /\ ~answer.pages.json

\* C10: a run against the remote data set of the run before it, with the
\* same configuration, writes what that run wrote: the same records in the
\* same order.
C10_RerunWritesTheSame ==
    (pc = "done" /\ run > 1) => file = fileAtStart

\* C10 witness: a second run has written two records that tie on stars and
\* on the instant of updatedAt.
C10_Witness ==
    /\ pc = "done"
    /\ run = 2
    /\ Len(file) = 2
    /\ file[1].stars = file[2].stars
    /\ DateOf(file[1].updatedAt) = DateOf(file[2].updatedAt)

----------------------------------------------------------------------------
(* formatProjectData applied to one repository record *)

\* The pipeline at rest at position p
Parked(p) ==
    /\ pc = p
    /\ run = 1
    /\ listResult = "none"
    /\ answer = NoAnswers
    /\ tierResult = NoResults
    /\ repos = << >>
    /\ idx = 0
    /\ projects = << >>
    /\ hasPages = FALSE
    /\ detectionMethod = ""
    /\ calls = << >>
    /\ inflight = 0
    /\ file = StaleFile
    /\ fileAtStart = StaleFile
    /\ exitCode = -1

\* Names with and without the account's domain in them
FormatNames ==
    { RootRepoName, DocsRepoName, PlainRepoName,
      RootRepoName \o << "-", "s", "r", "c" >>,
      << "x" >> \o RootRepoName,
      << "a", "b" >> \o DotGithubIo }

\* A property that is absent from the record, or holds one of the values
Optional(field, values) ==
    { [x \in {} |-> Null] } \cup { field :> v : v \in values }

FormatInputs ==
    { [ name |-> n,
        html_url |-> HTTPS \o GithubCom \o Username \o Slash \o n,
        stargazers_count |-> 1,
        forks_count |-> 0,
        updated_at |-> [t |-> 1, tz |-> 0],
        created_at |-> [t |-> 0, tz |-> 0],
        fork |-> FALSE,
        archived |-> FALSE ] @@ d @@ l @@ t @@ h :
        n \in FormatNames,
        d \in Optional("description", {Null, "", "text"}),
        l \in Optional("language", {Null, "", "JavaScript"}),
        t \in Optional("topics", {<< >>, << "cli" >>}),
        h \in Optional("homepage", {Null, "", "https://example.org"}) }

InitFormat ==
    /\ config \in Configs
    /\ \E r \in FormatInputs : remote = << r >>
    /\ Parked("format")
    /\ req = IdleReq

\* const project = formatProjectData(repo); projects.push(project)
FormatRecord ==
    /\ pc = "format"
    /\ projects' = Append(projects, formatProjectData(remote[1]))
    /\ pc' = "formatted"
    /\ UNCHANGED << config, req, run, remote, listResult, answer, tierResult,
                    repos, idx, hasPages, detectionMethod, calls, inflight,
                    file, fileAtStart, exitCode >>

NextFormat == FormatRecord

SpecFormat == InitFormat /\ [][NextFormat]_vars

\* The property is absent, null or empty
Missing(r, field) ==
    \/ field \notin DOMAIN r
    \/ r[field] = Null
    \/ r[field] = ""

\* C11: the description and the language of a formatted record are never
\* null or empty: each is the placeholder ('A GitHub project', 'Various')
\* when the repository's is absent, null or empty, and the repository's own
\* otherwise; topics is the empty sequence when absent.
C11_PlaceholdersForMissing ==
    pc = "formatted" =>
        LET r == remote[1]
            p == projects[1]
        IN  /\ p.description = IF Missing(r, "description")
                               THEN "A GitHub project" ELSE r.description
            /\ p.language = IF Missing(r, "language")
                            THEN "Various" ELSE r.language
            /\ p.description \notin {Null, ""}
            /\ p.language \notin {Null, ""}
            /\ p.topics = IF "topics" \in DOMAIN r THEN r.topics ELSE << >>

\* C11 witness: a record formatted from a repository with no description,
\* an empty language and no topics.
C11_Witness ==
    /\ pc = "formatted"
    /\ "description" \notin DOMAIN remote[1]
    /\ "language" \in DOMAIN remote[1] /\ remote[1].language = ""
    /\ "topics" \notin DOMAIN remote[1]
    /\ projects[1].description = "A GitHub project"
    /\ projects[1].language = "Various"

\* C12: the url of a formatted record is https://{account}.github.io/ when
\* the repository name contains {account}.github.io, and
\* https://{account}.github.io/{name}/ otherwise.
C12_PagesUrl ==
    pc = "formatted" =>
        LET r == remote[1]
            p == projects[1]
            root == HTTPS \o config.username \o DotGithubIo \o Slash
        IN  p.url = IF Includes(r.name, config.username \o DotGithubIo)
                    THEN root
                    ELSE root \o r.name \o Slash

\* C12 witness: the repository named exactly as the account's domain was
\* formatted, and its url is the root with no path segment.
C12_Witness ==
    /\ pc = "formatted"
    /\ remote[1].name = RootRepoName
    /\ projects[1].url = << "h", "t", "t", "p", "s", ":", "/", "/", "c", "z",
                            ".", "g", "i", "t", "h", "u", "b", ".", "i", "o", "/" >>

----------------------------------------------------------------------------
(* A run whose steps are taken *)

\* main is the only thread of control, so each of its steps is taken once
\* it can be.  The probe settles by its 5000 ms timeout at the latest; that
\* the list fetch and the Pages-config call settle is assumed of the remote
\* end, httpsGet setting no timeout.
\* Whether a run ends does not depend on the order of the output: the lists
\* here carry one update time.
SameTimeLists ==
    { l \in RepoLists :
        \A j \in DOMAIN l : l[j].updated_at = [t |-> 1, tz |-> 0] }

InitFair ==
    /\ config \in Configs
    /\ \E l \in SameTimeLists : Started(l, StaleFile)

SpecFair == InitFair /\ [][Next]_vars /\ WF_vars(Next)

ListFetched == answer.list # NoAnswer /\ ~ListFetchFailed(answer.list)

WrittenWithSuccess ==
    /\ pc = "done"
    /\ exitCode = 0
    /\ file = projects
    /\ repos = << >> =>
        /\ file = << >>
        /\ calls = << Call("list", NoRepo, config.token # "") >>

----------------------------------------------------------------------------
(* A run over whatever the output file held *)

\* What the output file can hold when a run starts: nothing, or the records
\* an earlier run wrote for every repository of the list, set behind a
\* project that has left the account
PriorFiles(l) ==
    { << >>,
      StaleFile \o SortProjects([k \in DOMAIN l |-> formatProjectData(l[k])]) }

InitOverwrite ==
    /\ config \in Configs
    /\ \E l \in RepoLists : \E f \in PriorFiles(l) : Started(l, f)

SpecOverwrite == InitOverwrite /\ [][Next]_vars

\* C14: the write puts into the file the sorted collection of the run and
\* nothing else, whatever the file held: after a successful run the file is
\* the run's sorted collection, its records are those of the repositories
\* detected in this run, and a record of the prior content that this run
\* did not collect is gone.
C14_FileFullyOverwritten ==
    /\ [][pc' = "done" => file' = SortProjects(projects)]_vars
    /\ [](pc = "done" =>
            /\ file = projects
            /\ IsSorted(file)
            /\ \A m \in DOMAIN file : Accounted(file[m])
            /\ \A j \in DOMAIN fileAtStart :
                 ~NameIn(projects, fileAtStart[j].name)
                     => ~NameIn(file, fileAtStart[j].name))

\* C14 witness: the file held the record of a repository of the list and
\* that of a project no longer in the account; the run has written a file
\* with a record in it and with neither of the two.
C14_Witness ==
    /\ pc = "done"
    /\ file # << >>
    /\ NameIn(fileAtStart, << "o", "l", "d" >>)
    /\ ~NameIn(file, << "o", "l", "d" >>)
    /\ \E k \in DOMAIN repos :
        /\ NameIn(fileAtStart, repos[k].name)
        /\ ~NameIn(file, repos[k].name)

----------------------------------------------------------------------------
(* The network calls of a run *)

CallsFor(kind, name) ==
    { c \in DOMAIN calls : calls[c].kind = kind /\ calls[c].repo = name }

EligibleRepos == { k \in DOMAIN repos : Eligible(repos[k]) }

\* C15: a repository gets at most one Pages-config call and at most one
\* probe, none of them for a repository the filter rejects; a probe that
\* follows a Pages-config call comes after it and after its negative, and
\* none follows a positive; the step that ends the probe, pattern tier
\* included, adds no call.  A run issues at most 1 + 2 x (eligible
\* repositories) calls.
C15_AtMostTwoCallsInTierOrder ==
    /\ [][pc = "awaitProbe" => calls' = calls]_vars
    /\ [] /\ \A n \in RepoNames :
              /\ Cardinality(CallsFor("pages", n)) <= 1
              /\ Cardinality(CallsFor("probe", n)) <= 1
              /\ \A a \in CallsFor("pages", n) : \A b \in CallsFor("probe", n) :
                    a < b /\ tierResult[n].pages = "no"
              /\ tierResult[n].pages = "yes" => CallsFor("probe", n) = {}
              /\ NetworkCallFor(n) =>
                    \E k \in EligibleRepos : repos[k].name = n
          /\ Cardinality(CallsFor("list", NoRepo)) <= 1
          /\ Len(calls) <= 1 + 2 * Cardinality(EligibleRepos)

\* C15 witness: a run with a token has ended after four calls: for one
\* repository the Pages-config call alone, which was positive, for another
\* the Pages-config call and then the probe; the list fetch is the fourth.
C15_Witness ==
    /\ pc = "done"
    /\ Len(calls) = 4
    /\ \E j, k \in EligibleRepos :
        /\ tierResult[repos[j].name].pages = "yes"
        /\ CallsFor("probe", repos[j].name) = {}
        /\ CallsFor("pages", repos[k].name) # {}
        /\ CallsFor("probe", repos[k].name) # {}

\* The repositories whose loop iteration has ended
Passed == { k \in DOMAIN repos : k < idx }

\* C16: a Pages-config call is issued only with a token configured, and
\* carries it.  Without a token every eligible repository whose iteration
\* has ended was probed; with a token exactly the eligible ones whose
\* Pages-config call was not positive were.
C16_TokenGatesApiTier ==
    /\ \A c \in DOMAIN calls :
        calls[c].kind = "pages" => config.token # "" /\ calls[c].auth
    /\ \A k \in Passed :
        CallsFor("probe", repos[k].name) # {} <=>
            /\ Eligible(repos[k])
            /\ config.token # "" => tierResult[repos[k].name].pages = "no"
    /\ \A k \in Passed :
        CallsFor("pages", repos[k].name) # {} <=>
            Eligible(repos[k]) /\ config.token # ""

\* C16 witness: a run with a token has ended; of two eligible repositories
\* one was probed after its Pages-config call, the other was not probed.
C16_Witness ==
    /\ pc = "done"
    /\ config.token # ""
    /\ \E j, k \in EligibleRepos :
        /\ CallsFor("pages", repos[j].name) # {}
        /\ CallsFor("probe", repos[j].name) # {}
        /\ CallsFor("pages", repos[k].name) # {}
        /\ CallsFor("probe", repos[k].name) = {}

\* A run without a token has ended with two eligible repositories probed
\* and no Pages-config call
NoTokenRunProbedAll ==
    /\ pc = "done"
    /\ config.token = ""
    /\ Cardinality(EligibleRepos) = 2
    /\ \A k \in EligibleRepos : CallsFor("probe", repos[k].name) # {}
    /\ \A c \in DOMAIN calls : calls[c].kind # "pages"

----------------------------------------------------------------------------
(* likelyHasPages applied to one repository record *)

\* Names that end with a pattern, that hold one elsewhere, that differ from
\* one by case or by the leading dot, and names with none
PatternTierNames ==
    { RootRepoName,
      << "a", "b" >> \o DotGithubIo,
      << "C", "Z" >> \o DotGithubIo,
      << "g", "i", "t", "h", "u", "b", ".", "i", "o" >>,
      RootRepoName \o << "-", "s", "r", "c" >>,
      << "x", "-", "h", "o", "m", "e", "p", "a", "g", "e" >>,
      << "x", "-", "p", "o", "r", "t", "f", "o", "l", "i", "o" >>,
      << "x", "-", "w", "e", "b", "s", "i", "t", "e" >>,
      << "x", "-", "s", "i", "t", "e" >>,
      << "x", "-", "d", "e", "m", "o" >>,
      DocsRepoName,
      << "x", "-", "D", "o", "c", "s" >>,
      << "x", "-", "d", "o", "c", "s", "-", "y" >>,
      << "d", "o", "c", "s" >>,
      PlainRepoName }

InitPattern ==
    /\ config \in Configs
    /\ \E n \in PatternTierNames : \E f, a \in BOOLEAN :
         remote = << RepoRecord(n, f, a, 0, [t |-> 1, tz |-> 0]) >>
    /\ Parked("pattern")
    /\ req = IdleReq

\* if (!hasPages && likelyHasPages(repo)) { hasPages = true; ... }
PatternTier ==
    /\ pc = "pattern"
    /\ ~hasPages
    /\ hasPages' = likelyHasPages(remote[1])
    /\ detectionMethod' =
           IF likelyHasPages(remote[1]) THEN "Pattern match" ELSE detectionMethod
    /\ pc' = "matched"
    /\ UNCHANGED << config, req, run, remote, listResult, answer, tierResult,
                    repos, idx, projects, calls, inflight, file, fileAtStart,
                    exitCode >>

NextPattern == PatternTier

SpecPattern == InitPattern /\ [][NextPattern]_vars

\* The six suffixes the specification lists
NamingSuffixes ==
    { << "-", "h", "o", "m", "e", "p", "a", "g", "e" >>,
      << "-", "p", "o", "r", "t", "f", "o", "l", "i", "o" >>,
      << "-", "w", "e", "b", "s", "i", "t", "e" >>,
      << "-", "s", "i", "t", "e" >>,
      << "-", "d", "e", "m", "o" >>,
      << "-", "d", "o", "c", "s" >> }

EndsWithNamingSuffix(name) == \E suf \in NamingSuffixes : EndsWith(name, suf)

\* C17 as stated: the pattern tier answers positive if and only if the
\* name is exactly the configured account followed by .github.io, or ends
\* with one of the six suffixes.
C17_ExactAccountDomain ==
    pc = "matched" =>
        (hasPages <=>
            \/ remote[1].name = config.username \o DotGithubIo
            \/ EndsWithNamingSuffix(remote[1].name))

\* C17: the pattern tier answers positive if and only if the name ends,
\* case-sensitively, with .github.io (whatever precedes it) or with one of
\* the six suffixes; every other name is not detected by this tier.
C17_EndsWithDomainOrSuffix ==
    pc = "matched" =>
        (hasPages <=>
            \/ EndsWith(remote[1].name, DotGithubIo)
            \/ EndsWithNamingSuffix(remote[1].name))

\* C17 witness: the tier has answered positive for a name that ends with
\* .github.io, is not the account's domain and ends with none of the six
\* suffixes.
C17_Witness ==
    /\ pc = "matched"
    /\ hasPages
    /\ detectionMethod = "Pattern match"
    /\ remote[1].name # config.username \o DotGithubIo
    /\ ~EndsWithNamingSuffix(remote[1].name)

----------------------------------------------------------------------------
(* One call at a time *)

Awaiting == pc \in {"awaitList", "awaitPages", "awaitProbe"}

RepoIndex(name) == CHOOSE k \in DOMAIN repos : repos[k].name = name

\* C18: at most one call is in flight, and one is exactly while main awaits
\* it; the call in flight is the last one issued and is for the repository
\* of the current iteration; calls follow the order of the list, so every
\* call for an earlier repository has settled; and the sort and write
\* happen with nothing in flight.
C18_OneCallAtATime ==
    /\ [][pc' = "done" => inflight = 0 /\ inflight' = 0]_vars
    /\ [] /\ inflight \in {0, 1}
          /\ inflight = 1 <=> Awaiting
          /\ pc \in {"awaitPages", "awaitProbe"} =>
                /\ calls[Len(calls)].repo = repos[idx].name
                /\ \A c \in 1..(Len(calls) - 1) :
                      \/ calls[c].kind = "list"
                      \/ RepoIndex(calls[c].repo) < idx
                      \/ /\ c = Len(calls) - 1
                         /\ calls[c] = Call("pages", repos[idx].name, TRUE)
                         /\ pc = "awaitProbe"
          /\ \A c, d \in DOMAIN calls :
                (c < d /\ calls[c].kind # "list" /\ calls[d].kind # "list")
                    => RepoIndex(calls[c].repo) <= RepoIndex(calls[d].repo)
          /\ \A c \in DOMAIN calls : calls[c].kind = "list" => c = 1

\* C18 witness: a call for the second repository of the list is in flight,
\* and the calls for the first one were issued before it.
C18_Witness ==
    /\ pc = "awaitProbe"
    /\ idx = 2
    /\ inflight = 1
    /\ CallsFor("probe", repos[1].name) # {}
    /\ CallsFor("probe", repos[2].name) = { Len(calls) }

----------------------------------------------------------------------------
(* testPagesURL followed event by event *)

ProbeStatuses == { 200, 301, 399, 400, 404, 500 }

Event(ev, status) == [ev |-> ev, status |-> status]

Happened(ev) == \E e \in DOMAIN req.events : req.events[e].ev = ev

\* Variant: a later call of resolve replaces the value of the promise
ResolveOverwrites(settled, v) == [kind |-> "resolved", value |-> v]

\* resolve(v): settles a pending promise, does nothing to a settled one
Resolve(settled, v) ==
    IF settled.kind = "pending" THEN [kind |-> "resolved", value |-> v]
    ELSE settled

InitProbe ==
    /\ config \in Configs
    /\ \E n \in RepoNames :
         remote = << RepoRecord(n, FALSE, FALSE, 0, [t |-> 1, tz |-> 0]) >>
    /\ Parked("probe")
    /\ req = IdleReq

\* testPagesURL up to the return of the promise: the request is sent and
\* the three listeners are registered
ProbeStart ==
    /\ pc = "probe"
    /\ req' = [req EXCEPT !.call = "probe"]
    /\ calls' = Append(calls, Call("probe", remote[1].name, FALSE))
    /\ inflight' = inflight + 1
    /\ pc' = "awaitProbe"
    /\ UNCHANGED << config, run, remote, listResult, answer, tierResult, repos,
                    idx, projects, hasPages, detectionMethod, file,
                    fileAtStart, exitCode >>

\* The response callback: (res) => resolve(200 <= statusCode < 400).
\* A request answers once, and not after it failed or was destroyed.
ProbeOnResponse ==
    /\ req.call = "probe"
    /\ ~Happened("response") /\ ~Happened("error") /\ ~req.destroyed
    /\ \E st \in ProbeStatuses :
        req' = [req EXCEPT
                  !.events = Append(@, Event("response", st)),
                  !.status = st,
                  !.settled = Resolve(@, testPagesURL(
                      [kind |-> "response", status |-> st, json |-> FALSE]))]
    /\ UNCHANGED << config, pc, run, remote, listResult, answer, tierResult,
                    repos, idx, projects, hasPages, detectionMethod, calls,
                    inflight, file, fileAtStart, exitCode >>

\* req.on('error', () => resolve(false)): a network error, or the error
\* that follows the destruction of the request
ProbeOnError ==
    /\ req.call = "probe"
    /\ ~Happened("error")
    /\ req' = [req EXCEPT
                 !.events = Append(@, Event("error", 0)),
                 !.settled = Resolve(@, FALSE)]
    /\ UNCHANGED << config, pc, run, remote, listResult, answer, tierResult,
                    repos, idx, projects, hasPages, detectionMethod, calls,
                    inflight, file, fileAtStart, exitCode >>

\* req.on('timeout', () => { req.destroy(); resolve(false); })
ProbeOnTimeout ==
    /\ req.call = "probe"
    /\ ~Happened("timeout") /\ ~Happened("error") /\ ~req.destroyed
    /\ req' = [req EXCEPT
                 !.events = Append(@, Event("timeout", 0)),
                 !.destroyed = TRUE,
                 !.settled = Resolve(@, FALSE)]
    /\ UNCHANGED << config, pc, run, remote, listResult, answer, tierResult,
                    repos, idx, projects, hasPages, detectionMethod, calls,
                    inflight, file, fileAtStart, exitCode >>

\* hasPages = await testPagesURL(repo.name), once the promise is settled
ProbeAwaited ==
    /\ pc = "awaitProbe"
    /\ req.call = "probe"
    /\ req.settled.kind # "pending"
    /\ IF req.settled.kind = "resolved"
       THEN /\ hasPages' = req.settled.value
            /\ detectionMethod' =
                   IF req.settled.value THEN "URL test" ELSE "URL test (not found)"
       ELSE /\ hasPages' = hasPages
            /\ detectionMethod' = "URL test error"
    /\ inflight' = inflight - 1
    /\ pc' = "probed"
    /\ UNCHANGED << config, req, run, remote, listResult, answer, tierResult,
                    repos, idx, projects, calls, file, fileAtStart, exitCode >>

NextProbe ==
    \/ ProbeStart
    \/ ProbeOnResponse
    \/ ProbeOnError
    \/ ProbeOnTimeout
    \/ ProbeAwaited

SpecProbe == InitProbe /\ [][NextProbe]_vars

FirstEventIsGoodResponse ==
    /\ req.events[1].ev = "response"
    /\ req.events[1].status >= 200 /\ req.events[1].status < 400

\* C19: the probe's promise is never rejected; from the first event of the
\* request on it is resolved, with true exactly when that event is a
\* response with a status in [200,400) and with false for any other status,
\* an error or a timeout; a timeout destroys the request; a settled promise
\* is not changed by later events, and the caller gets its value.
C19_ProbeResolvesBooleanOnce ==
    /\ [][req.settled.kind # "pending" => req'.settled = req.settled]_vars
    /\ [] /\ req.settled.kind \in {"pending", "resolved"}
          /\ req.settled.kind = "resolved" <=> req.events # << >>
          /\ req.events # << >> =>
                /\ req.settled.value \in BOOLEAN
                /\ req.settled.value <=> FirstEventIsGoodResponse
          /\ Happened("timeout") => req.destroyed
          /\ pc = "probed" =>
                /\ detectionMethod # "URL test error"
                /\ hasPages = req.settled.value

\* C19 witness: the request timed out after a response with a status in
\* [200,400), was destroyed and raised an error; the caller holds true.
C19_Witness ==
    /\ pc = "probed"
    /\ Len(req.events) = 3
    /\ FirstEventIsGoodResponse
    /\ req.events[2].ev = "timeout"
    /\ req.events[3].ev = "error"
    /\ req.destroyed
    /\ hasPages

----------------------------------------------------------------------------
(* httpsGet followed event by event *)

FetchStatuses == { 200, 299, 300, 403, 404 }

\* Pieces of a body: of the texts made of them the well-formed JSON ones
\* are [], [[]], ...
Chunks == { << "[" >>, << "]" >>, << "[", "]" >>, << "x" >> }

RECURSIVE WellFormedJson(_)
WellFormedJson(text) ==
    /\ Len(text) >= 2
    /\ text[1] = "["
    /\ text[Len(text)] = "]"
    /\ Len(text) = 2 \/ WellFormedJson(SubSeq(text, 2, Len(text) - 1))

\* JSON.parse of a well-formed text: the array it denotes
RECURSIVE JSONparse(_)
JSONparse(text) ==
    IF Len(text) = 2 THEN << >>
    ELSE << JSONparse(SubSeq(text, 2, Len(text) - 1)) >>

\* reject(e): settles a pending promise, does nothing to a settled one
Reject(settled, e) ==
    IF settled.kind = "pending" THEN [kind |-> "rejected", error |-> e]
    ELSE settled

HttpError(status, body) == [type |-> "http", status |-> status, body |-> body]

ParseError == [type |-> "parse"]

TransportError == [type |-> "transport"]

InitFetch ==
    /\ config \in Configs
    /\ remote = << >>
    /\ Parked("fetch")
    /\ req = IdleReq

\* httpsGet up to the return of the promise: the request is sent
FetchStart ==
    /\ pc = "fetch"
    /\ req' = [req EXCEPT !.call = "fetch"]
    /\ calls' = Append(calls, Call("list", NoRepo, config.token # ""))
    /\ inflight' = inflight + 1
    /\ pc' = "awaitList"
    /\ UNCHANGED << config, run, remote, listResult, answer, tierResult, repos,
                    idx, projects, hasPages, detectionMethod, file,
                    fileAtStart, exitCode >>

\* The response callback: let data = '', and the two listeners on res
FetchOnResponse ==
    /\ req.call = "fetch"
    /\ ~Happened("response") /\ ~Happened("error")
    /\ \E st \in FetchStatuses :
        req' = [req EXCEPT
                  !.events = Append(@, Event("response", st)),
                  !.status = st,
                  !.data = << >>]
    /\ UNCHANGED << config, pc, run, remote, listResult, answer, tierResult,
                    repos, idx, projects, hasPages, detectionMethod, calls,
                    inflight, file, fileAtStart, exitCode >>

DataEvents == { e \in DOMAIN req.events : req.events[e].ev = "data" }

\* res.on('data', (chunk) => { data += chunk; })
FetchOnData ==
    /\ req.call = "fetch"
    /\ Happened("response") /\ ~Happened("end") /\ ~Happened("error")
    /\ Cardinality(DataEvents) < MaxChunks
    /\ \E chunk \in Chunks :
        req' = [req EXCEPT
                  !.events = Append(@, Event("data", 0)),
                  !.data = @ \o chunk]
    /\ UNCHANGED << config, pc, run, remote, listResult, answer, tierResult,
                    repos, idx, projects, hasPages, detectionMethod, calls,
                    inflight, file, fileAtStart, exitCode >>

\* Variant: the body parsed before the status is looked at
FetchOnEndParsesFirst ==
    /\ req.call = "fetch"
    /\ Happened("response") /\ ~Happened("end") /\ ~Happened("error")
    /\ req' = [req EXCEPT
                 !.events = Append(@, Event("end", 0)),
                 !.settled =
                     IF ~WellFormedJson(req.data) THEN Reject(@, ParseError)
                     ELSE IF req.status >= 200 /\ req.status < 300
                          THEN Resolve(@, JSONparse(req.data))
                          ELSE Reject(@, HttpError(req.status, req.data))]
    /\ UNCHANGED << config, pc, run, remote, listResult, answer, tierResult,
                    repos, idx, projects, hasPages, detectionMethod, calls,
                    inflight, file, fileAtStart, exitCode >>

\* res.on('end', ...): on a status in [200,300) resolve(JSON.parse(data)),
\* or reject with the parse error; on any other status reject with
\* `HTTP ${res.statusCode}: ${data}`
FetchOnEnd ==
    /\ req.call = "fetch"
    /\ Happened("response") /\ ~Happened("end") /\ ~Happened("error")
    /\ req' = [req EXCEPT
                 !.events = Append(@, Event("end", 0)),
                 !.settled =
                     IF req.status >= 200 /\ req.status < 300
                     THEN IF WellFormedJson(req.data)
                          THEN Resolve(@, JSONparse(req.data))
                          ELSE Reject(@, ParseError)
                     ELSE Reject(@, HttpError(req.status, req.data))]
    /\ UNCHANGED << config, pc, run, remote, listResult, answer, tierResult,
                    repos, idx, projects, hasPages, detectionMethod, calls,
                    inflight, file, fileAtStart, exitCode >>

\* .on('error', reject): a transport error, before or after the response
FetchOnError ==
    /\ req.call = "fetch"
    /\ ~Happened("error")
    /\ req' = [req EXCEPT
                 !.events = Append(@, Event("error", 0)),
                 !.settled = Reject(@, TransportError)]
    /\ UNCHANGED << config, pc, run, remote, listResult, answer, tierResult,
                    repos, idx, projects, hasPages, detectionMethod, calls,
                    inflight, file, fileAtStart, exitCode >>

\* const repos = await httpsGet(REPOS_API, headers), once the promise is
\* settled: main goes on, or its catch block ends the process with status 1
FetchAwaited ==
    /\ pc = "awaitList"
    /\ req.call = "fetch"
    /\ req.settled.kind # "pending"
    /\ inflight' = inflight - 1
    /\ IF req.settled.kind = "resolved"
       THEN /\ listResult' = "yes"
            /\ pc' = "loop"
            /\ exitCode' = exitCode
       ELSE /\ listResult' = "no"
            /\ pc' = "failed"
            /\ exitCode' = 1
    /\ UNCHANGED << config, req, run, remote, answer, tierResult, repos, idx,
                    projects, hasPages, detectionMethod, calls, file,
                    fileAtStart >>

NextFetch ==
    \/ FetchStart
    \/ FetchOnResponse
    \/ FetchOnData
    \/ FetchOnEnd
    \/ FetchOnError
    \/ FetchAwaited

SpecFetch == InitFetch /\ [][NextFetch]_vars

\* The first event that ends the call: the end of the body, or an error
FirstEnding ==
    LET endings == { e \in DOMAIN req.events : req.events[e].ev \in {"end", "error"} }
    IN  req.events[CHOOSE e \in endings : \A o \in endings : e <= o].ev

StatusIs2xx == req.status >= 200 /\ req.status < 300

\* C20: a call delivers nothing before the body has ended or an error
\* occurred, and from then on exactly one outcome, never changed: the
\* parsed body if and only if the body ended first, the status is in
\* [200,300) and the accumulated body is well-formed JSON; a parse error for
\* a malformed body with such a status; an HTTP error carrying the status
\* and the unparsed body for any other status; an error when a transport
\* error came first.
C20_FetchDeliversOneOutcome ==
    /\ [][req.settled.kind # "pending" => req'.settled = req.settled]_vars
    /\ [] /\ req.settled.kind = "pending" <=>
                ~Happened("end") /\ ~Happened("error")
          /\ req.settled.kind = "resolved" <=>
                /\ req.settled.kind # "pending"
                /\ FirstEnding = "end"
                /\ httpsGetResolves([kind |-> "response", status |-> req.status,
                                     json |-> WellFormedJson(req.data)])
          /\ req.settled.kind = "resolved" =>
                req.settled.value = JSONparse(req.data)
          /\ req.settled.kind = "rejected" =>
                req.settled.error =
                    IF FirstEnding = "error" THEN TransportError
                    ELSE IF StatusIs2xx THEN ParseError
                    ELSE HttpError(req.status, req.data)
          /\ pc = "loop" => req.settled.kind = "resolved"
          /\ pc = "failed" => req.settled.kind = "rejected" /\ exitCode = 1

\* C20 witness: a response with a status outside [200,300) delivered a
\* well-formed JSON body in two pieces; the call failed with the HTTP error
\* carrying status and body, and an error event after the end changed
\* nothing.
C20_Witness ==
    /\ pc = "failed"
    /\ ~StatusIs2xx
    /\ Cardinality(DataEvents) = 2
    /\ WellFormedJson(req.data)
    /\ req.events[Len(req.events)].ev = "error"
    /\ FirstEnding = "end"
    /\ req.settled = [kind |-> "rejected", error |-> HttpError(req.status, req.data)]

----------------------------------------------------------------------------
(* The credential on the wire *)

\* C21: a call carries the Authorization header only when a token is
\* configured, and then the list fetch and the Pages-config calls carry it
\* and no other call does; the probe never carries it.
C21_TokenOnlyOnApiCalls ==
    \A c \in DOMAIN calls :
        /\ calls[c].auth => config.token # "" /\ calls[c].kind \in {"list", "pages"}
        /\ calls[c].kind = "probe" => ~calls[c].auth
        /\ (config.token # "" /\ calls[c].kind \in {"list", "pages"}) => calls[c].auth

\* C21 witness: a run with a token has ended after a list fetch and a
\* Pages-config call that carried the header and a probe that did not.
C21_Witness ==
    /\ pc = "done"
    /\ config.token # ""
    /\ \E a, b, c \in DOMAIN calls :
        /\ calls[a].kind = "list" /\ calls[a].auth
        /\ calls[b].kind = "pages" /\ calls[b].auth
        /\ calls[c].kind = "probe" /\ ~calls[c].auth

----------------------------------------------------------------------------
(* Exact inclusion *)

MatchesPatternTier(name) ==
    EndsWith(name, DotGithubIo) \/ EndsWithNamingSuffix(name)

\* The repository passes the filter and a tier has detected it in this run
Qualifies(repo) ==
    /\ ~(config.filterForks /\ repo.fork)
    /\ ~(config.filterArchived /\ repo.archived)
    /\ repo.stargazers_count >= config.minStars
    /\ \/ config.token # "" /\ tierResult[repo.name].pages = "yes"
       \/ tierResult[repo.name].probe = "yes"
       \/ MatchesPatternTier(repo.name)

RecordsOf(records, name) == { m \in DOMAIN records : records[m].name = name }

\* C22: after a successful run a fetched repository is in the output if and
\* only if it passes the filter and at least one tier detects it: the
\* Pages-config call with a token, the probe, or the pattern tier.  The
\* output holds exactly one record per such repository, its formatted
\* record, and no other record.
C22_InclusionIsExact ==
    pc = "done" =>
        /\ repos = remote
        /\ \A k \in DOMAIN repos :
            /\ NameIn(file, repos[k].name) <=> Qualifies(repos[k])
            /\ Qualifies(repos[k]) =>
                /\ Cardinality(RecordsOf(file, repos[k].name)) = 1
                /\ \A m \in RecordsOf(file, repos[k].name) :
                      file[m] = formatProjectData(repos[k])
        /\ Len(file) = Cardinality({ k \in DOMAIN repos : Qualifies(repos[k]) })

\* C22 witness: the written output holds a fork, exclude-forks being
\* disabled, whose stars equal a minimum above zero and which only the
\* pattern tier detected; and it lacks a repository of the list that passes
\* the filter and that no tier detected.
C22_Witness ==
    /\ pc = "done"
    /\ ~config.filterForks
    /\ config.minStars > 0
    /\ \E j, k \in DOMAIN repos :
        /\ repos[j].fork
        /\ repos[j].stargazers_count = config.minStars
        /\ tierResult[repos[j].name].probe = "no"
        /\ tierResult[repos[j].name].pages # "yes"
        /\ NameIn(file, repos[j].name)
        /\ Eligible(repos[k])
        /\ ~NameIn(file, repos[k].name)

----------------------------------------------------------------------------
(* Termination *)

\* Variant: the probe without its timeout, left to the remote end as well
ForcedStepsWithoutTimeout ==
    StartMain \/ SkipRepo \/ BeginCheck \/ SortAndWrite

\* The steps that are taken without the remote end's doing: those of main
\* between two awaits, and the settling of the probe, which its 5000 ms
\* timeout forces.  httpsGet sets no timeout, so ListResponse and
\* PagesResponse are not among them.
ForcedSteps ==
    StartMain \/ SkipRepo \/ BeginCheck \/ ProbeResponse \/ SortAndWrite

SpecForced == InitFair /\ [][Next]_vars /\ WF_vars(ForcedSteps)

\* No list fetch and no Pages-config call stays unanswered for ever
JsonCallsAnswer == []<>(pc \notin {"awaitList", "awaitPages"})

Terminated ==
    \/ pc = "done" /\ exitCode = 0 /\ file = projects
    \/ pc = "failed" /\ exitCode = 1

\* C23: if every list fetch and every Pages-config call is answered, the
\* run ends, with the output written or in failure; nothing is assumed of
\* the probe.  While a list fetch or a Pages-config call is unanswered no
\* step of the run can be taken and the output is not written, so that a
\* call that is never answered leaves the run waiting for ever.
C23_TerminatesIfJsonCallsAnswer ==
    /\ JsonCallsAnswer => <>Terminated
    /\ [](pc \in {"awaitList", "awaitPages"} =>
            /\ ~ENABLED ForcedSteps
            /\ ~Terminated
            /\ file = fileAtStart)

\* C23 witness: a Pages-config call for the second repository of the list
\* is unanswered, the first having been collected; the file is as it was.
C23_Witness ==
    /\ pc = "awaitPages"
    /\ idx = 2
    /\ Len(projects) = 1
    /\ file = fileAtStart
    /\ ~ENABLED ForcedSteps

\* Ending without any assumption on the remote end
EndsUnconditionally == <>Terminated

====
